---- MODULE Spec2Model ----
(***************************************************************************)
(* Air-Gesture-Control: the gesture recognition core (detector.py,         *)
(* HandDetector) as a state machine driven by one process() call per tick. *)
(*                                                                         *)
(* Numbers.  Normalised coordinates are integers in hundredths (0.05 of    *)
(* area is 500 ten-thousandths), depths are hundredths, and time.time() is *)
(* an integer count of quarter seconds, so 0.5 s = 2, 1.5 s = 6.  All the  *)
(* comparisons of the code are made exactly on these rationals.            *)
(* An Optional value of the code is a sequence of length 0 (None) or 1.    *)
(***************************************************************************)
EXTENDS Integers, Sequences, FiniteSets, TLC

VARIABLES
    now,              \* the value time.time() returned on the last tick
    history,          \* self.history: deque(maxlen=5) of <<t, x, y>>
    last_finger_time, \* self.last_finger_time
    scroll_mode,      \* self.scroll_mode
    activation_time,  \* self._activation_time
    scroll_ref_y,     \* self._scroll_ref_y (Optional)
    gesture,          \* the Optional[Gesture] the last process() returned
    frame,            \* whether the last process() returned a frame
    obs,              \* what the last process() call was given
    \* the record of the run so far that the properties below speak of
    five_run,         \* start of the unbroken run of five-finger ticks outside
                      \* scroll mode that the last tick belongs to (Optional)
    five_pending,     \* time of the last tick with a selected hand, if that
                      \* was a five-finger tick outside scroll mode (Optional)
    last_five,        \* time of the last five-finger tick outside scroll mode
    stale,            \* a non-five hand tick that did not enter scroll mode
                      \* came after the last five-finger tick
    rearm,            \* scroll mode was left and no five-finger tick came since
    emits,            \* times of the last (up to 2) fingers events returned
    recent,           \* samples of the last (up to 5) ticks of the unbroken
                      \* run of ticks with a selected hand
    run,              \* length of that run, counted up to 6
    quiet,            \* ticks at the end of that run that returned no swipe,
                      \* counted up to 5
    \* main.py, App
    last_action,      \* self.last_action: Dict[str, float], a missing key
                      \* being None
    enabled,          \* self.enabled: the BooleanVar of each known kind
    acted,            \* the event the last handle_gesture was given
                      \* (Optional) and the calls into actions.py it made
    done,             \* per kind, the times of the last (up to 2) events
                      \* of the kind for which actions.py was called
    \* one call of a method that keeps no state
    call              \* [fn, args, ret] of the call, fn = "none" before it

detector_vars == <<now, history, last_finger_time, scroll_mode,
                   activation_time, scroll_ref_y, gesture, frame, obs,
                   five_run, five_pending, last_five, stale, rearm, emits,
                   recent, run, quiet>>

app_vars == <<last_action, enabled, acted, done>>

vars == <<detector_vars, app_vars, call>>

None == <<>>
Some(v) == <<v>>

----------------------------------------------------------------------------
(* Units and program constants *)

PosScale == 100      \* coordinate units per 1.0 of the normalised frame
TimeScale == 4       \* clock units per second

HISTORY_MAXLEN == 5                                 \* deque(maxlen=5)
MIN_AREA == (5 * PosScale * PosScale) \div 100      \* best_area >= 0.05
POINT_MARGIN == (2 * PosScale) \div 100             \* dip.z - 0.02
ARM_WINDOW == (15 * TimeScale) \div 10              \* ... < 1.5
FINGER_DEBOUNCE == (5 * TimeScale) \div 10          \* ... > 0.5

(* Bounds of the exploration.  time.time() is an epoch clock, far more    *)
(* than 1.5 s away from the 0.0 both watermarks start at: the clock       *)
(* starts at StartTime, beyond both windows.  Ticks are Steps apart and   *)
(* the clock is followed for Horizon units (Spec); SpecSlow follows slow  *)
(* ticks, SlowSteps apart, for SlowHorizon units, and is the one that     *)
(* records the samples of the run of hand ticks (recent, run, quiet).     *)
StartTime == 8
Horizon == 6
SlowHorizon == 16

Steps == {1, 2}
SlowSteps == {2, 6}

----------------------------------------------------------------------------
(* Hands: 21 landmarks, each [x, y, z] *)

Landmarks == 0..20
TIPS == <<4, 8, 12, 16, 20>>
PIPS == <<2, 6, 10, 14, 18>>

Abs(n) == IF n < 0 THEN -n ELSE n

RECURSIVE SeqMax(_), SeqMin(_)
SeqMax(s) == IF Len(s) = 1 THEN s[1]
             ELSE LET m == SeqMax(Tail(s)) IN IF s[1] > m THEN s[1] ELSE m
SeqMin(s) == IF Len(s) = 1 THEN s[1]
             ELSE LET m == SeqMin(Tail(s)) IN IF s[1] < m THEN s[1] ELSE m

\* (a thumb test that does not turn with the orientation of the hand)
CountFingers_NoFlip(lm) ==
    LET thumb == IF lm[TIPS[1]].x > lm[PIPS[1]].x THEN 1 ELSE 0
        Up(k) == IF lm[TIPS[k]].y < lm[PIPS[k]].y THEN 1 ELSE 0
    IN thumb + Up(2) + Up(3) + Up(4) + Up(5)

\* _count_fingers
CountFingers(lm) ==
    LET thumb == IF lm[5].x < lm[17].x
                 THEN (IF lm[TIPS[1]].x > lm[PIPS[1]].x THEN 1 ELSE 0)
                 ELSE (IF lm[TIPS[1]].x < lm[PIPS[1]].x THEN 1 ELSE 0)
        Up(k) == IF lm[TIPS[k]].y < lm[PIPS[k]].y THEN 1 ELSE 0
    IN thumb + Up(2) + Up(3) + Up(4) + Up(5)

\* area = (max(xs) - min(xs)) * (max(ys) - min(ys))
Area(lm) ==
    LET xs == [i \in 1..21 |-> lm[i - 1].x]
        ys == [i \in 1..21 |-> lm[i - 1].y]
    IN (SeqMax(xs) - SeqMin(xs)) * (SeqMax(ys) - SeqMin(ys))

\* (a loop that also replaces the best hand by one of equal area)
RECURSIVE SelectLoop_LastTie(_, _, _)
SelectLoop_LastTie(hands, best, best_area) ==
    IF hands = <<>> THEN [best |-> best, best_area |-> best_area]
    ELSE LET area == Area(Head(hands))
         IN IF area >= best_area
            THEN SelectLoop_LastTie(Tail(hands), Some(Head(hands)), area)
            ELSE SelectLoop_LastTie(Tail(hands), best, best_area)

\* _select_closest_hand: the loop over hands, carrying (best, best_area)
RECURSIVE SelectLoop(_, _, _)
SelectLoop(hands, best, best_area) ==
    IF hands = <<>> THEN [best |-> best, best_area |-> best_area]
    ELSE LET area == Area(Head(hands))
         IN IF area > best_area
            THEN SelectLoop(Tail(hands), Some(Head(hands)), area)
            ELSE SelectLoop(Tail(hands), best, best_area)

SelectClosestHand(hands) ==
    LET r == SelectLoop(hands, None, 0)
    IN IF r.best_area >= MIN_AREA THEN r.best ELSE None

\* _is_pointing_at_camera
IsPointingAtCamera(lm) == lm[8].z < lm[7].z - POINT_MARGIN

----------------------------------------------------------------------------
(* Gestures *)

Gesture(type, fingers, delta) ==
    [type |-> type, fingers |-> fingers, delta |-> delta]

SwipeTypes == {"swipe_right", "swipe_up", "swipe_down"}

----------------------------------------------------------------------------
(* History and swipes *)

\* (the deque without its maxlen)
DequeAppend_Unbounded(h, s) == Append(h, s)

\* deque(maxlen=5).append
DequeAppend(h, s) ==
    IF Len(h) >= HISTORY_MAXLEN THEN Append(Tail(h), s) ELSE Append(h, s)

\* vx > 1.0, vy < -1.0 ... on v = d / dt, for dt # 0
VGreater1(d, dt) == IF dt > 0 THEN d * TimeScale > dt * PosScale
                    ELSE d * TimeScale < dt * PosScale
VLessMinus1(d, dt) == VGreater1(-d, dt)
\* (a cross-axis cap that lets 0.8 through)
VAbsBelow08_Inclusive(d, dt) == 10 * Abs(d) * TimeScale <= 8 * Abs(dt) * PosScale

VAbsBelow08(d, dt) == 10 * Abs(d) * TimeScale < 8 * Abs(dt) * PosScale

\* _detect_swipe: the Optional[str] returned and the history left behind
DetectSwipe(h) ==
    IF Len(h) < 2 THEN [swipe |-> None, history |-> h]
    ELSE LET t0 == h[1][1]
             x0 == h[1][2]
             y0 == h[1][3]
             t1 == h[Len(h)][1]
             x1 == h[Len(h)][2]
             y1 == h[Len(h)][3]
             dt == t1 - t0
             dx == x1 - x0
             dy == y1 - y0
         IN IF dt = 0 THEN [swipe |-> None, history |-> h]
            ELSE IF VGreater1(dx, dt) /\ VAbsBelow08(dy, dt)
                 THEN [swipe |-> Some("swipe_right"), history |-> <<>>]
            ELSE IF VLessMinus1(dy, dt) /\ VAbsBelow08(dx, dt)
                 THEN [swipe |-> Some("swipe_up"), history |-> <<>>]
            ELSE IF VGreater1(dy, dt) /\ VAbsBelow08(dx, dt)
                 THEN [swipe |-> Some("swipe_down"), history |-> <<>>]
            ELSE [swipe |-> None, history |-> h]

----------------------------------------------------------------------------
(* The mode logic of process(), lines 124-146 *)

\* (a window that is still open at exactly 1.5 s)
ArmWindowOpen_Inclusive(t, act) == (t - act) <= ARM_WINDOW

\* (now - self._activation_time) < 1.5
ArmWindowOpen(t, act) == (t - act) < ARM_WINDOW

\* (a debounce of twice the interval)
FingersDue_Long(t, lft) == (t - lft) > 2 * FINGER_DEBOUNCE

\* (no debounce)
FingersDue_Always(t, lft) == (t - lft) >= 0

\* (a debounce that lets a tick exactly 0.5 s later through)
FingersDue_Inclusive(t, lft) == (t - lft) >= FINGER_DEBOUNCE

\* (now - self.last_finger_time) > 0.5
FingersDue(t, lft) == (t - lft) > FINGER_DEBOUNCE

\* (current minus reference)
ScrollDelta_Flipped(ref, idx) == idx - (IF ref = None THEN idx ELSE ref[1])

\* lines 127-129: delta = self._scroll_ref_y - idx, the reference being idx
\* itself when it was None
ScrollDelta(ref, idx) == (IF ref = None THEN idx ELSE ref[1]) - idx

\* (an exit that forgets to clear the reference)
ExitScroll_KeepRef(ref, act, lft) ==
    [scroll_mode |-> FALSE, scroll_ref_y |-> ref,
     activation_time |-> act, last_finger_time |-> lft, gesture |-> None]

\* (an exit that clears the reference and forgets the mode flag)
ExitScroll_KeepMode(ref, act, lft) ==
    [scroll_mode |-> TRUE, scroll_ref_y |-> None,
     activation_time |-> act, last_finger_time |-> lft, gesture |-> None]

\* lines 132-134: leaving scroll mode
ExitScroll(ref, act, lft) ==
    [scroll_mode |-> FALSE, scroll_ref_y |-> None,
     activation_time |-> act, last_finger_time |-> lft, gesture |-> None]

\* if self.scroll_mode: ... (lines 124-134)
ScrollBranch(fingers, pointing, idx, ref, act, lft) ==
    IF fingers = 1 /\ pointing
    THEN [scroll_mode |-> TRUE, scroll_ref_y |-> Some(idx),
          activation_time |-> act, last_finger_time |-> lft,
          gesture |-> Some(Gesture("scroll", None, Some(ScrollDelta(ref, idx))))]
    ELSE ExitScroll(ref, act, lft)

\* (an entry that does not ask for the pointing index finger)
EnterGuard_NoPointing(fingers, pointing, t, act) ==
    fingers = 1 /\ ArmWindowOpen(t, act)

\* line 139: fingers == 1 and (now - self._activation_time) < 1.5 and pointing
EnterGuard(fingers, pointing, t, act) ==
    fingers = 1 /\ ArmWindowOpen(t, act) /\ pointing

\* else: ... (lines 135-146)
IdleBranch(fingers, pointing, idx, ref, act, lft, t) ==
    IF fingers = 5
    THEN [scroll_mode |-> FALSE, scroll_ref_y |-> ref,
          activation_time |-> t, last_finger_time |-> lft,
          gesture |-> None]
    ELSE IF EnterGuard(fingers, pointing, t, act)
    THEN [scroll_mode |-> TRUE, scroll_ref_y |-> Some(idx),
          activation_time |-> act, last_finger_time |-> lft,
          gesture |-> None]
    ELSE IF fingers # 0 /\ FingersDue(t, lft)
    THEN [scroll_mode |-> FALSE, scroll_ref_y |-> ref,
          activation_time |-> act, last_finger_time |-> t,
          gesture |-> Some(Gesture("fingers", Some(fingers), None))]
    ELSE [scroll_mode |-> FALSE, scroll_ref_y |-> ref,
          activation_time |-> act, last_finger_time |-> lft,
          gesture |-> None]

\* lines 120-146 on the selected hand
ModeStep(r, mode, ref, act, lft, t) ==
    IF mode THEN ScrollBranch(r.fingers, r.pointing, r.idx, ref, act, lft)
    ELSE IdleBranch(r.fingers, r.pointing, r.idx, ref, act, lft, t)

\* (swipes looked for in scroll mode too)
SwipeStep_Always(m, h) ==
    LET d == DetectSwipe(h)
    IN [gesture |-> IF d.swipe # None
                    THEN Some(Gesture(d.swipe[1], None, None))
                    ELSE m.gesture,
        history |-> d.history]

\* (a swipe that does not replace the gesture already set)
SwipeStep_KeepFirst(m, h) ==
    IF ~m.scroll_mode
    THEN LET d == DetectSwipe(h)
         IN [gesture |-> IF d.swipe # None /\ m.gesture = None
                         THEN Some(Gesture(d.swipe[1], None, None))
                         ELSE m.gesture,
             history |-> d.history]
    ELSE [gesture |-> m.gesture, history |-> h]

\* lines 148-152: swipes only when not in scroll mode; a swipe overwrites
SwipeStep(m, h) ==
    IF ~m.scroll_mode
    THEN LET d == DetectSwipe(h)
         IN [gesture |-> IF d.swipe # None
                         THEN Some(Gesture(d.swipe[1], None, None))
                         ELSE m.gesture,
             history |-> d.history]
    ELSE [gesture |-> m.gesture, history |-> h]

----------------------------------------------------------------------------
(* The hands the detector reports *)

\* An upright hand with its first n fingers (index, middle, ring, pinky,
\* thumb) counted as extended, moved by off; the index tip is raised by
\* lift; half size when small.
FingerOf(i) == (i - 1) \div 4        \* 1 index .. 4 pinky, for i in 5..20

HandX(n) ==
    [i \in Landmarks |->
        CASE i = 0 -> 25
          [] i = 1 -> 14
          [] i = 2 -> 10
          [] i = 3 -> 7
          [] i = 4 -> IF n >= 5 THEN 16 ELSE 4
          [] OTHER -> 6 + 8 * FingerOf(i)]

HandY(n, lift) ==
    [i \in Landmarks |->
        CASE i = 0 -> 40
          [] i = 1 -> 36
          [] i = 2 -> 32
          [] i = 3 -> 30
          [] i = 4 -> 28
          [] i \in {5, 9, 13, 17} -> 26
          [] i \in {6, 10, 14, 18} -> 20
          [] i \in {7, 11, 15, 19} -> IF FingerOf(i) <= n THEN 15 ELSE 23
          [] i = 8 -> IF n >= 1 THEN 10 - lift ELSE 24
          [] OTHER -> IF FingerOf(i) <= n THEN 10 ELSE 24]

Hand(n, pointing, lift, off, small) ==
    LET div == IF small THEN 2 ELSE 1
    IN [i \in Landmarks |->
          [x |-> off[1] + HandX(n)[i] \div div,
           y |-> off[2] + HandY(n, lift)[i] \div div,
           z |-> IF i = 8 /\ pointing THEN -5 ELSE 0]]

Offsets == {<<0, 0>>, <<0, 60>>}

Poses == {<<0, FALSE, 0>>, <<1, FALSE, 0>>, <<1, TRUE, 0>>, <<1, TRUE, 10>>,
          <<2, FALSE, 0>>, <<2, TRUE, 0>>, <<4, FALSE, 0>>, <<5, FALSE, 0>>}

BigHands == {Hand(p[1], p[2], p[3], off, FALSE) : p \in Poses, off \in Offsets}
SmallHands == {Hand(5, FALSE, 0, <<0, 0>>, TRUE), Hand(1, TRUE, 0, <<0, 60>>, TRUE)}

----------------------------------------------------------------------------
(* process() *)

\* What one process() call reads from the camera and the landmark detector
\* (lines 103-126): ret, results.multi_hand_landmarks, the selected hand and
\* the values the mode logic takes from it.
Reading(ret, hands) ==
    LET sel == IF ret /\ hands # <<>> THEN SelectClosestHand(hands) ELSE None
    IN [ret |-> ret,
        detected |-> ret /\ hands # <<>>,
        selected |-> sel # None,
        wrist |-> IF sel = None THEN <<0, 0>> ELSE <<sel[1][0].x, sel[1][0].y>>,
        fingers |-> IF sel = None THEN 0 ELSE CountFingers(sel[1]),
        pointing |-> IF sel = None THEN FALSE ELSE IsPointingAtCamera(sel[1]),
        idx |-> IF sel = None THEN 0 ELSE sel[1][8].y]

Detections == {<<>>} \cup {<<h>> : h \in BigHands \cup SmallHands}

Readings == {Reading(FALSE, <<>>)} \cup {Reading(TRUE, hs) : hs \in Detections}

\* What a tick was given: the reading, whether it began in scroll mode, for
\* how long five-finger ticks had been coming without a break (-1: the tick
\* before was not one), and the time of the five-finger tick that was the
\* last hand tick before it, if that is what the last hand tick was
Obs(kind, r) ==
    [kind |-> kind, fingers |-> r.fingers, pointing |-> r.pointing,
     idx |-> r.idx, wrist |-> r.wrist, was_active |-> scroll_mode,
     held |-> IF five_run = None THEN -1 ELSE now - five_run[1],
     pending |-> five_pending]

IsType(g, types) == g # None /\ g[1].type \in types

Entered == ~scroll_mode /\ scroll_mode'
Exited == scroll_mode /\ ~scroll_mode'
FiveTick(r) == r.selected /\ r.fingers = 5

Min2(a, b) == IF a < b THEN a ELSE b

\* The record of the run, brought up to date after a tick that read r; the
\* samples of the run of hand ticks are recorded when fifo is set
Track(r, fifo) ==
    /\ five_run' = IF FiveTick(r) /\ ~scroll_mode
                   THEN (IF five_run = None THEN Some(now') ELSE five_run)
                   ELSE None
    /\ five_pending' = IF ~r.selected THEN five_pending
                       ELSE IF r.fingers = 5 /\ ~scroll_mode THEN Some(now')
                       ELSE None
    /\ last_five' = IF FiveTick(r) /\ ~scroll_mode THEN Some(now') ELSE last_five
    /\ stale' = IF ~r.selected THEN stale
                ELSE IF r.fingers = 5 THEN FALSE
                ELSE IF Entered THEN stale
                ELSE TRUE
    /\ rearm' = IF Exited THEN TRUE
                ELSE IF FiveTick(r) THEN FALSE
                ELSE rearm
    /\ emits' = IF ~IsType(gesture', {"fingers"}) THEN emits
                ELSE IF Len(emits) < 2 THEN Append(emits, now')
                ELSE <<emits[2], now'>>
    /\ IF fifo
       THEN /\ recent' = IF ~r.selected THEN <<>>
                         ELSE LET a == Append(recent, <<now', r.wrist[1], r.wrist[2]>>)
                              IN IF Len(a) > 5 THEN Tail(a) ELSE a
            /\ run' = IF r.selected THEN Min2(run + 1, 6) ELSE 0
            /\ quiet' = IF r.selected /\ ~IsType(gesture', SwipeTypes)
                        THEN Min2(quiet + 1, 5) ELSE 0
       ELSE UNCHANGED <<recent, run, quiet>>

\* main.py lines 21-27: the kinds that have an enable flag
KnownKinds == {"swipe_right", "swipe_up", "swipe_down", "fingers", "scroll"}

\* HandDetector.__init__, before the first tick
InitDetectorWith(h) ==
    /\ now = StartTime
    /\ history = h
    /\ last_finger_time = 0
    /\ scroll_mode = FALSE
    /\ activation_time = 0
    /\ scroll_ref_y = None
    /\ gesture = None
    /\ frame = FALSE
    /\ five_run = None
    /\ five_pending = None
    /\ last_five = None
    /\ stale = FALSE
    /\ rearm = FALSE
    /\ emits = <<>>
    /\ recent = <<>>
    /\ run = 0
    /\ quiet = 0
    /\ obs = Obs("init", Reading(FALSE, <<>>))

InitDetector == InitDetectorWith(<<>>)

\* App.__init__ (main.py lines 21-30): every kind enabled, last_action = {}
InitApp ==
    /\ last_action = [k \in KnownKinds |-> None]
    /\ enabled = [k \in KnownKinds |-> TRUE]
    /\ acted = [event |-> None, calls |-> <<>>]
    /\ done = [k \in KnownKinds |-> <<>>]

NoCall == [fn |-> "none", args |-> <<>>, ret |-> <<>>]

Init ==
    /\ InitDetector
    /\ InitApp
    /\ call = NoCall

\* time.time(): the clock moves on by dt between two ticks
Clock(dt, limit) ==
    /\ now + dt <= StartTime + limit
    /\ now' = now + dt

\* lines 103-105: ret is False
ProcessNoFrame(r, dt, limit, fifo) ==
    /\ ~r.ret
    /\ Clock(dt, limit)
    /\ gesture' = None
    /\ frame' = FALSE
    /\ obs' = Obs("noframe", r)
    /\ UNCHANGED <<history, last_finger_time, scroll_mode, activation_time,
                   scroll_ref_y>>
    /\ UNCHANGED <<app_vars, call>>
    /\ Track(r, fifo)

\* lines 156-157: results.multi_hand_landmarks is None/empty
ProcessNoHands(r, dt, limit, fifo) ==
    /\ r.ret /\ ~r.detected
    /\ Clock(dt, limit)
    /\ history' = <<>>
    /\ gesture' = None
    /\ frame' = TRUE
    /\ obs' = Obs("nohands", r)
    /\ UNCHANGED <<last_finger_time, scroll_mode, activation_time, scroll_ref_y>>
    /\ UNCHANGED <<app_vars, call>>
    /\ Track(r, fifo)

\* lines 154-155: hands were reported and none is selected
ProcessRejected(r, dt, limit, fifo) ==
    /\ r.detected /\ ~r.selected
    /\ Clock(dt, limit)
    /\ history' = <<>>
    /\ gesture' = None
    /\ frame' = TRUE
    /\ obs' = Obs("rejected", r)
    /\ UNCHANGED <<last_finger_time, scroll_mode, activation_time, scroll_ref_y>>
    /\ UNCHANGED <<app_vars, call>>
    /\ Track(r, fifo)

\* lines 112-152: a hand is selected
ProcessHand(r, dt, limit, fifo) ==
    /\ r.selected
    /\ Clock(dt, limit)
    /\ LET h1 == DequeAppend(history, <<now', r.wrist[1], r.wrist[2]>>)
           m == ModeStep(r, scroll_mode, scroll_ref_y, activation_time,
                         last_finger_time, now')
           s == SwipeStep(m, h1)
       IN /\ scroll_mode' = m.scroll_mode
          /\ scroll_ref_y' = m.scroll_ref_y
          /\ activation_time' = m.activation_time
          /\ last_finger_time' = m.last_finger_time
          /\ history' = s.history
          /\ gesture' = s.gesture
          /\ frame' = TRUE
          /\ obs' = Obs("hand", r)
    /\ UNCHANGED <<app_vars, call>>
    /\ Track(r, fifo)

Next ==
    \/ \E r \in Readings, dt \in Steps : ProcessNoFrame(r, dt, Horizon, FALSE)
    \/ \E r \in Readings, dt \in Steps : ProcessNoHands(r, dt, Horizon, FALSE)
    \/ \E r \in Readings, dt \in Steps : ProcessRejected(r, dt, Horizon, FALSE)
    \/ \E r \in Readings, dt \in Steps : ProcessHand(r, dt, Horizon, FALSE)

Spec == Init /\ [][Next]_vars

\* Slow ticks over a long horizon, on fewer hands
SlowHands ==
    {Hand(p[1], p[2], p[3], <<0, 0>>, FALSE) :
        p \in {<<5, FALSE, 0>>, <<1, TRUE, 0>>, <<1, FALSE, 0>>, <<2, FALSE, 0>>}}
    \cup {Hand(2, FALSE, 0, <<0, 60>>, FALSE)}

SlowReadings ==
    {Reading(FALSE, <<>>), Reading(TRUE, <<>>),
     Reading(TRUE, <<Hand(5, FALSE, 0, <<0, 0>>, TRUE)>>)}
    \cup {Reading(TRUE, <<h>>) : h \in SlowHands}

NextSlow ==
    \/ \E r \in SlowReadings, dt \in SlowSteps : ProcessNoFrame(r, dt, SlowHorizon, TRUE)
    \/ \E r \in SlowReadings, dt \in SlowSteps : ProcessNoHands(r, dt, SlowHorizon, TRUE)
    \/ \E r \in SlowReadings, dt \in SlowSteps : ProcessRejected(r, dt, SlowHorizon, TRUE)
    \/ \E r \in SlowReadings, dt \in SlowSteps : ProcessHand(r, dt, SlowHorizon, TRUE)

SpecSlow == Init /\ [][NextSlow]_vars

----------------------------------------------------------------------------
(* Properties *)

HandTick == obs.kind = "hand"
PointTick == HandTick /\ obs.fingers = 1 /\ obs.pointing
EnterTick == HandTick /\ ~obs.was_active /\ scroll_mode
ExitTick == obs.was_active /\ ~scroll_mode
HOLD == 2 * TimeScale                     \* the 2.0 s of the hold

\* C1 (as claimed): when five-finger ticks have come without a break for
\* 2.0 s or more outside scroll mode and the next tick shows one finger,
\* pointing, that tick does not enter scroll mode.
C1_HoldThenPoint_Claimed ==
    (PointTick /\ obs.held >= HOLD) => ~scroll_mode

\* C1 (amended): after such a hold the one-finger pointing tick enters scroll
\* mode exactly when it comes less than 1.5 s after the last five-finger tick
\* (every five-finger tick records the arming time anew); when it comes
\* 1.5 s or more after it, the tick stays outside scroll mode and returns
\* nothing, a fingers event of count 1 or a swipe.
C1_HoldThenPoint ==
    (PointTick /\ obs.held >= HOLD) =>
        /\ last_five # None
        /\ scroll_mode <=> (now - last_five[1] < ARM_WINDOW)
        /\ ~scroll_mode =>
              \/ gesture = None
              \/ gesture = Some(Gesture("fingers", Some(1), None))
              \/ IsType(gesture, SwipeTypes)

C1_Witness ==
    /\ PointTick /\ obs.held >= HOLD
    /\ ~scroll_mode
    /\ gesture = Some(Gesture("fingers", Some(1), None))

\* C2 (as claimed): once a hand tick with a count other than five that does
\* not enter scroll mode has followed the last five-finger tick, no tick
\* enters scroll mode.
C2_ArmedAbandoned_Claimed == EnterTick => ~stale

\* C2 (amended): a posture does not abandon the arming, only time does: a
\* tick enters scroll mode exactly when it begins outside scroll mode, has a
\* selected hand with one finger, pointing, and comes less than 1.5 s after
\* the last five-finger tick seen outside scroll mode, whatever hand ticks
\* came in between; a tick without a selected hand leaves the mode alone.
C2_ArmedByTime ==
    /\ (HandTick /\ ~obs.was_active) =>
          (scroll_mode <=> /\ obs.fingers = 1
                           /\ obs.pointing
                           /\ last_five # None
                           /\ now - last_five[1] < ARM_WINDOW)
    /\ (~HandTick) => (scroll_mode = obs.was_active)

C2_Witness == EnterTick /\ stale

\* C3 (as claimed): after scroll mode was left, no tick enters it again
\* unless a five-finger tick came after the exit.
C3_ExitToIdle_Claimed == EnterTick => ~rearm

\* C3 (amended): the tick that leaves scroll mode clears the mode flag and
\* the scroll reference; after it a tick enters scroll mode again only if a
\* five-finger tick came after the exit or the tick comes less than 1.5 s
\* after the five-finger tick that armed the episode just left.
C3_ExitToIdle ==
    /\ ExitTick => (HandTick /\ ~PointTick /\ scroll_ref_y = None)
    /\ (EnterTick /\ rearm) =>
          (last_five # None /\ now - last_five[1] < ARM_WINDOW)

C3_Witness == EnterTick /\ rearm

\* C4: a five-finger tick outside scroll mode followed, less than 1.5 s later
\* and with no other hand tick in between, by a one-finger pointing tick:
\* that tick sets scroll_mode, sets the scroll reference to its index-tip y
\* and returns no gesture.
C4_SilentEntry ==
    [][(/\ five_pending # None
        /\ obs'.kind = "hand" /\ obs'.fingers = 1 /\ obs'.pointing
        /\ now' - five_pending[1] < ARM_WINDOW)
       => (/\ scroll_mode'
           /\ scroll_ref_y' = Some(obs'.idx)
           /\ gesture' = None)]_vars

\* such an entry tick, whose history would have made a swipe
C4_Witness ==
    /\ EnterTick /\ PointTick
    /\ obs.pending # None /\ now - obs.pending[1] < ARM_WINDOW
    /\ gesture = None
    /\ DetectSwipe(history).swipe # None

\* C5: a tick that begins in scroll mode returns nothing or a scroll event,
\* also when it leaves scroll mode.
C5_OnlyScrollWhileActive ==
    obs.was_active => (gesture = None \/ IsType(gesture, {"scroll"}))

\* C6: a tick that begins in scroll mode with one finger, pointing, stays in
\* scroll mode, returns scroll with delta = reference before - index-tip y,
\* and makes the index-tip y the reference.
C6_ScrollLoop ==
    [][(scroll_mode /\ obs'.kind = "hand" /\ obs'.fingers = 1 /\ obs'.pointing)
       => (/\ scroll_mode'
           /\ scroll_ref_y # None
           /\ gesture' = Some(Gesture("scroll", None,
                                      Some(scroll_ref_y[1] - obs'.idx)))
           /\ scroll_ref_y' = Some(obs'.idx))]_vars

\* the fingertip 0.1 higher in the frame (y lower by 0.1): delta +0.1
C6_Witness ==
    /\ obs.was_active /\ PointTick
    /\ gesture = Some(Gesture("scroll", None, Some(PosScale \div 10)))

\* C7 (as claimed): outside scroll mode, a hand tick with n in 1..5 fingers
\* that does not enter scroll mode and returns no swipe, at least 0.5 s
\* after the last fingers event returned (or with none returned yet),
\* returns fingers(n).
C7_FingersRule_Claimed ==
    [][(/\ ~scroll_mode
        /\ obs'.kind = "hand" /\ obs'.fingers \in 1..5
        /\ ~scroll_mode'
        /\ ~IsType(gesture', SwipeTypes)
        /\ (emits = <<>> \/ now' - emits[Len(emits)] >= FINGER_DEBOUNCE))
       => gesture' = Some(Gesture("fingers", Some(obs'.fingers), None))]_vars

\* C7 (amended): outside scroll mode, a hand tick with n in 1..4 fingers
\* (five fingers arm the scroll entry and never make a fingers event) that
\* does not enter scroll mode and returns no swipe, more than 0.5 s after the
\* watermark last_finger_time (the last time the fingers rule fired, whether
\* its event was returned or overwritten by a swipe), returns fingers(n).
C7_FingersRule ==
    [][(/\ ~scroll_mode
        /\ obs'.kind = "hand" /\ obs'.fingers \in 1..4
        /\ ~scroll_mode'
        /\ ~IsType(gesture', SwipeTypes)
        /\ now' - last_finger_time > FINGER_DEBOUNCE)
       => gesture' = Some(Gesture("fingers", Some(obs'.fingers), None))]_vars

\* a second fingers event, carrying 4
C7_Witness ==
    /\ HandTick /\ ~obs.was_active
    /\ gesture = Some(Gesture("fingers", Some(4), None))
    /\ Len(emits) = 2

\* C8: two fingers events returned are at least 0.5 s apart.
C8_FingersDebounce ==
    Len(emits) = 2 => emits[2] - emits[1] >= FINGER_DEBOUNCE

\* a second fingers event has just been returned
C8_Witness ==
    /\ Len(emits) = 2
    /\ IsType(gesture, {"fingers"})
    /\ emits[2] = now

\* C9: outside scroll mode, when the fingers rule fires and the swipe guard
\* fires on the same tick, the one gesture returned is the swipe.
C9_SwipePrecedence ==
    [][(/\ ~scroll_mode
        /\ obs'.kind = "hand" /\ obs'.fingers \in 1..4
        /\ ~scroll_mode'
        /\ now' - last_finger_time > FINGER_DEBOUNCE
        /\ DetectSwipe(DequeAppend(history, <<now', obs'.wrist[1], obs'.wrist[2]>>)).swipe # None)
       => (/\ Len(gesture') = 1
           /\ gesture'[1] = Gesture(
                  DetectSwipe(DequeAppend(history, <<now', obs'.wrist[1], obs'.wrist[2]>>)).swipe[1],
                  None, None)
           /\ last_finger_time' = now')]_vars

C9_Witness ==
    /\ HandTick /\ obs.fingers \in 1..4
    /\ IsType(gesture, SwipeTypes)
    /\ last_finger_time = now

\* C10 (as claimed): the history never holds more than 5 samples, and after
\* 6 ticks in a row with a selected hand it holds the samples of the last 5.
C10_History_Claimed ==
    /\ Len(history) <= HISTORY_MAXLEN
    /\ run = 6 => history = recent

\* C10 (amended): the history never holds more than 5 samples, and after
\* 6 ticks in a row with a selected hand of which the last 5 returned no
\* swipe, it holds the samples of those 5, oldest first (a tick that returns
\* a swipe empties the history).
C10_History ==
    /\ Len(history) <= HISTORY_MAXLEN
    /\ (run = 6 /\ quiet = 5) => history = recent

C10_Witness == run = 6 /\ quiet = 5 /\ history[1] # history[5]

\* C11: after every process() call on which no hand is selected (no frame
\* read, no hands reported, or the best hand below the minimum area) the
\* wrist history is empty.
C11_GapsClearHistory ==
    obs.kind \in {"noframe", "nohands", "rejected"} => history = <<>>

----------------------------------------------------------------------------
(* _detect_swipe on its own *)

\* Displacements that put a velocity on, between and beyond the thresholds
\* when made in 1 s or 2 s
SwipeShifts == {-200, -100, -80, 0, 80, 100, 200}

SwipeFirst == {<<0, 0, 0>>, <<TimeScale, 0, 0>>}

SwipeLast ==
    {<<t, x, y>> : t \in {0, TimeScale, 2 * TimeScale},
                   x \in SwipeShifts, y \in SwipeShifts}

\* The histories _detect_swipe is called on: empty, one sample, two samples,
\* and three with a sample in between that it must not look at
SwipeInputs ==
    {<<>>} \cup {<<a>> : a \in SwipeFirst}
    \cup {<<a, b>> : a \in SwipeFirst, b \in SwipeLast}
    \cup {<<a, <<2, 200, -200>>, b>> : a \in SwipeFirst, b \in SwipeLast}

InitSwipe ==
    /\ \E h \in SwipeInputs : InitDetectorWith(h)
    /\ InitApp
    /\ call = NoCall

\* one call of self._detect_swipe()
DetectSwipeCall ==
    /\ call.fn = "none"
    /\ LET d == DetectSwipe(history)
       IN /\ call' = [fn |-> "_detect_swipe", args |-> history, ret |-> d.swipe]
          /\ history' = d.history
    /\ UNCHANGED <<now, last_finger_time, scroll_mode, activation_time,
                   scroll_ref_y, gesture, frame, obs, five_run, five_pending,
                   last_five, stale, rearm, emits, recent, run, quiet>>
    /\ UNCHANGED app_vars

NextSwipe == DetectSwipeCall

SpecSwipe == InitSwipe /\ [][NextSwipe]_vars

\* The velocity in hundredths per second of a displacement d made in dt
\* clock units; the division is exact on SwipeInputs
Velocity(d, dt) ==
    IF dt > 0 THEN (d * TimeScale) \div dt ELSE ((-d) * TimeScale) \div (-dt)

\* C12: with at least 2 samples and differing oldest and newest timestamps,
\* _detect_swipe returns swipe_right iff vx > 1.0 and |vy| < 0.8, else
\* swipe_up iff vy < -1.0 and |vx| < 0.8, else swipe_down iff vy > 1.0 and
\* |vx| < 0.8, else nothing; with fewer samples or equal timestamps nothing;
\* and the history is empty afterwards exactly when a swipe was returned,
\* otherwise unchanged.
C12_SwipeClassification ==
    [][call'.fn = "_detect_swipe" =>
        LET h == call'.args
            n == Len(h)
            dt == h[n][1] - h[1][1]
            vx == Velocity(h[n][2] - h[1][2], dt)
            vy == Velocity(h[n][3] - h[1][3], dt)
            expected ==
                IF n < 2 \/ dt = 0 THEN None
                ELSE IF vx > PosScale /\ Abs(vy) < (8 * PosScale) \div 10
                     THEN Some("swipe_right")
                ELSE IF vy < -PosScale /\ Abs(vx) < (8 * PosScale) \div 10
                     THEN Some("swipe_up")
                ELSE IF vy > PosScale /\ Abs(vx) < (8 * PosScale) \div 10
                     THEN Some("swipe_down")
                ELSE None
        IN /\ call'.ret = expected
           /\ history' = IF expected # None THEN <<>> ELSE h]_vars

\* the diagonal (0,0,0) -> (1,2,2): nothing returned, the history kept
C12_Witness ==
    /\ call.fn = "_detect_swipe"
    /\ call.args = <<<<0, 0, 0>>, <<TimeScale, 2 * PosScale, 2 * PosScale>>>>
    /\ call.ret = None
    /\ history = call.args

----------------------------------------------------------------------------
(* Ticks without end: update_frame() schedules itself again every time *)

LiveHorizon == 4

LiveHands ==
    {Hand(p[1], p[2], p[3], <<0, 0>>, FALSE) :
        p \in {<<5, FALSE, 0>>, <<1, TRUE, 0>>, <<0, FALSE, 0>>}}

LiveReadings ==
    {Reading(FALSE, <<>>), Reading(TRUE, <<>>),
     Reading(TRUE, <<Hand(5, FALSE, 0, <<0, 0>>, TRUE)>>)}
    \cup {Reading(TRUE, <<h>>) : h \in LiveHands}

\* A tick without a selected hand after the clock has reached the horizon:
\* process() does not read the clock on such a tick (time.time() is called
\* at lines 117 and 121 only, for a selected hand)
ProcessLate(r) ==
    /\ ~r.selected
    /\ now = StartTime + LiveHorizon
    /\ now' = now
    /\ history' = IF r.ret THEN <<>> ELSE history
    /\ gesture' = None
    /\ frame' = r.ret
    /\ obs' = Obs(IF ~r.ret THEN "noframe"
                  ELSE IF r.detected THEN "rejected" ELSE "nohands", r)
    /\ UNCHANGED <<last_finger_time, scroll_mode, activation_time, scroll_ref_y>>
    /\ UNCHANGED <<app_vars, call>>
    /\ Track(r, FALSE)

NextLive ==
    \/ \E r \in LiveReadings, dt \in Steps : ProcessNoFrame(r, dt, LiveHorizon, FALSE)
    \/ \E r \in LiveReadings, dt \in Steps : ProcessNoHands(r, dt, LiveHorizon, FALSE)
    \/ \E r \in LiveReadings, dt \in Steps : ProcessRejected(r, dt, LiveHorizon, FALSE)
    \/ \E r \in LiveReadings, dt \in Steps : ProcessHand(r, dt, LiveHorizon, FALSE)
    \/ \E r \in LiveReadings : ProcessLate(r)

\* main.py line 81: self.after(self.delay, self.update_frame), so a tick
\* that can be taken is taken
SpecLive == Init /\ [][NextLive]_vars /\ WF_vars(NextLive)

\* C13: if from some tick onward no hand is ever selected, a session that
\* is in scroll mode eventually has scroll_mode False and the scroll
\* reference cleared.
C13_DecayToIdle ==
    (<>[](obs.kind # "hand")) =>
        [](scroll_mode => <>(~scroll_mode /\ scroll_ref_y = None))

----------------------------------------------------------------------------
(* main.py: App.handle_gesture *)

RATE_LIMIT == TimeScale                       \* ... < 1.0

DispatchHorizon == 8
DispatchSteps == {2, 4}

\* The events handed to handle_gesture: every known kind, a kind without a
\* flag, fingers with and without a count, scroll with and without a delta
Events ==
    {Gesture(k, None, None) : k \in SwipeTypes \cup {"swipe_left", "fingers", "scroll"}}
    \cup {Gesture("fingers", Some(n), None) : n \in {0, 2}}
    \cup {Gesture("scroll", None, Some(d)) : d \in {0, 10}}

\* (a dispatcher that does not look at the value of the flag)
Enabled_IgnoreFlag(g, en) == g.type \in KnownKinds

\* lines 85-89: enabled_var = self.enabled.get(gesture.type), and the
\* return when it is missing or off
Enabled(g, en) == g.type \in KnownKinds /\ en[g.type]

\* line 92
IsScroll(g) == g.type = "scroll" /\ g.delta # None

\* (a limit of half a second)
RateLimited_Half(g, t, la) ==
    t - (IF la[g.type] = None THEN 0 ELSE la[g.type][1]) < RATE_LIMIT \div 2

\* line 99: now - self.last_action.get(gesture.type, 0) < 1.0
RateLimited(g, t, la) ==
    t - (IF la[g.type] = None THEN 0 ELSE la[g.type][1]) < RATE_LIMIT

\* lines 105-118: the call into actions.py made for an event that passed
\* the rate limit; a fingers event needs a truthy count
Dispatch(g) ==
    IF g.type = "swipe_right" THEN <<[fn |-> "dismiss_notifications", arg |-> None]>>
    ELSE IF g.type = "swipe_up" THEN <<[fn |-> "send_page_down", arg |-> None]>>
    ELSE IF g.type = "swipe_down" THEN <<[fn |-> "send_page_up", arg |-> None]>>
    ELSE IF g.type = "fingers" /\ g.fingers # None /\ g.fingers[1] # 0
         THEN <<[fn |-> "toggle_taskbar_slot", arg |-> g.fingers]>>
    ELSE <<>>

\* handle_gesture(g) at time t: the calls it makes and the last_action it
\* leaves. int(delta * 1200) of a delta of d hundredths is 12 * d.
HandleResult(g, t, la, en) ==
    IF ~Enabled(g, en) THEN [calls |-> <<>>, last_action |-> la]
    ELSE IF IsScroll(g)
         THEN [calls |-> <<[fn |-> "scroll_wheel",
                            arg |-> Some((g.delta[1] * 1200) \div PosScale)]>>,
               last_action |-> la]
    ELSE IF RateLimited(g, t, la) THEN [calls |-> <<>>, last_action |-> la]
    ELSE [calls |-> Dispatch(g),
          last_action |-> [la EXCEPT ![g.type] = Some(t)]]

HandleGesture(g, dt) ==
    /\ Clock(dt, DispatchHorizon)
    /\ LET r == HandleResult(g, now', last_action, enabled)
       IN /\ acted' = [event |-> Some(g), calls |-> r.calls]
          /\ last_action' = r.last_action
          /\ done' = IF r.calls = <<>> THEN done
                     ELSE [done EXCEPT ![g.type] =
                              IF Len(@) < 2 THEN Append(@, now')
                              ELSE <<@[2], now'>>]
    /\ UNCHANGED <<history, last_finger_time, scroll_mode, activation_time,
                   scroll_ref_y, gesture, frame, obs, five_run, five_pending,
                   last_five, stale, rearm, emits, recent, run, quiet>>
    /\ UNCHANGED <<enabled, call>>

\* lines 39-41: the user clicks the Checkbutton of a kind
Toggle(k) ==
    /\ enabled' = [enabled EXCEPT ![k] = ~@]
    /\ UNCHANGED <<detector_vars, last_action, acted, done, call>>

NextDispatch ==
    \/ \E g \in Events, dt \in DispatchSteps : HandleGesture(g, dt)
    \/ \E k \in KnownKinds : Toggle(k)

SpecDispatch == Init /\ [][NextDispatch]_vars

\* C14: two actions executed for one non-scroll kind are at least 1.0 s
\* apart; the limit is per kind (an event changes no other kind's watermark
\* and an enabled event that its own kind's watermark lets through is
\* executed, whatever was done for other kinds); an enabled scroll event
\* with a delta always calls scroll_wheel and changes no watermark.
C14_RateLimit ==
    [][now' # now =>
        LET g == acted'.event[1]
            k == g.type
        IN /\ \A j \in KnownKinds \ {"scroll"} :
                 Len(done'[j]) = 2 => done'[j][2] - done'[j][1] >= RATE_LIMIT
           /\ \A j \in KnownKinds \ {k} : last_action'[j] = last_action[j]
           /\ (/\ k \in KnownKinds \ {"scroll"}
               /\ enabled[k]
               /\ (last_action[k] = None
                      \/ now' - last_action[k][1] >= RATE_LIMIT))
                 => acted'.calls = Dispatch(g)
           /\ (k = "scroll" /\ g.delta # None /\ enabled[k])
                 => (/\ Len(acted'.calls) = 1
                     /\ acted'.calls[1].fn = "scroll_wheel"
                     /\ last_action' = last_action)]_vars

\* a fingers action exactly 1.0 s after the last one, with a swipe_up action
\* in between
C14_Witness ==
    /\ Len(done["fingers"]) = 2
    /\ done["fingers"][2] - done["fingers"][1] = RATE_LIMIT
    /\ done["fingers"][2] = now
    /\ Len(done["swipe_up"]) = 1
    /\ done["swipe_up"][1] > done["fingers"][1]
    /\ acted.calls # <<>>

\* C15: an event whose kind is disabled or has no flag makes no call into
\* actions.py and leaves every watermark as it was.
C15_IgnoredNoEffect ==
    [][(/\ now' # now
        /\ \/ acted'.event[1].type \notin KnownKinds
           \/ ~enabled[acted'.event[1].type])
       => (/\ acted'.calls = <<>>
           /\ last_action' = last_action
           /\ done' = done)]_vars

\* a fingers event with a count, never rate limited, that was ignored
\* because its flag is off
C15_Witness ==
    /\ acted.event = Some(Gesture("fingers", Some(2), None))
    /\ acted.calls = <<>>
    /\ ~enabled["fingers"]
    /\ last_action["fingers"] = None

----------------------------------------------------------------------------
(* _select_closest_hand on its own *)

\* A hand whose bounding box is w by h: the wrist at one corner, every other
\* landmark at the opposite one
BoxHand(w, h) ==
    [i \in Landmarks |-> IF i = 0 THEN [x |-> 10, y |-> 10, z |-> 0]
                         ELSE [x |-> 10 + w, y |-> 10 + h, z |-> 0]]

\* Hands of equal area at two places, hands below, at and above the minimum
\* area, and a hand of no area
SelectHands ==
    {Hand(5, FALSE, 0, <<0, 0>>, FALSE), Hand(5, FALSE, 0, <<0, 60>>, FALSE),
     Hand(1, TRUE, 0, <<0, 0>>, FALSE), Hand(5, FALSE, 0, <<0, 0>>, TRUE),
     BoxHand(25, 20), BoxHand(20, 25), BoxHand(20, 20), BoxHand(0, 0)}

MaxHands == 3

RECURSIVE HandLists(_)
HandLists(n) ==
    IF n = 0 THEN {<<>>}
    ELSE HandLists(n - 1)
         \cup {Append(l, h) : l \in {m \in HandLists(n - 1) : Len(m) = n - 1},
                              h \in SelectHands}

SelectInputs == HandLists(MaxHands)

InitSelect ==
    /\ InitDetector
    /\ InitApp
    /\ \E hs \in SelectInputs : call = [fn |-> "none", args |-> hs, ret |-> <<>>]

\* one call of self._select_closest_hand(hands)
SelectCall ==
    /\ call.fn = "none"
    /\ call' = [fn |-> "_select_closest_hand", args |-> call.args,
                ret |-> SelectClosestHand(call.args)]
    /\ UNCHANGED <<detector_vars, app_vars>>

NextSelect == SelectCall

SpecSelect == InitSelect /\ [][NextSelect]_vars

\* C16: _select_closest_hand returns a hand only if its area is >= 0.05 and
\* >= the area of every candidate; it returns none when every area is below
\* 0.05 (the empty list included); and of several hands of the maximal area
\* it returns the first in input order.
C16_HandSelector ==
    call.fn = "_select_closest_hand" =>
        LET hs == call.args
            r == call.ret
            top(i) == \A j \in 1..Len(hs) : Area(hs[i]) >= Area(hs[j])
        IN /\ r # None =>
                 /\ \E i \in 1..Len(hs) : hs[i] = r[1]
                 /\ Area(r[1]) >= MIN_AREA
                 /\ \A j \in 1..Len(hs) : Area(r[1]) >= Area(hs[j])
                 /\ \E i \in 1..Len(hs) :
                        /\ top(i)
                        /\ \A j \in 1..(i - 1) : ~top(j)
                        /\ r[1] = hs[i]
           /\ (\A j \in 1..Len(hs) : Area(hs[j]) < MIN_AREA) => r = None

\* two different hands of the same, maximal area after a smaller one: the
\* first of the two is returned
C16_Witness ==
    /\ call.fn = "_select_closest_hand"
    /\ Len(call.args) = 3
    /\ Area(call.args[1]) < Area(call.args[2])
    /\ Area(call.args[2]) = Area(call.args[3])
    /\ call.args[2] # call.args[3]
    /\ call.ret = Some(call.args[2])

----------------------------------------------------------------------------
(* _count_fingers on its own *)

\* A hand with the index MCP at x5, the pinky MCP at x17, the thumb tip at
\* xtip, the thumb joint (landmark 2) at xpip, and the fingers k of ups
\* (2 index .. 5 pinky) with their tips above their PIP joints
PostureHand(x5, x17, xtip, xpip, ups) ==
    [i \in Landmarks |->
        [x |-> CASE i = 5 -> x5 [] i = 17 -> x17 [] i = 4 -> xtip
                 [] i = 2 -> xpip [] OTHER -> 50,
         y |-> IF \E k \in 2..5 : i = TIPS[k]
               THEN (IF (CHOOSE k \in 2..5 : i = TIPS[k]) \in ups THEN 10 ELSE 30)
               ELSE 20,
         z |-> 0]]

PostureXs == {30, 50, 70}

PostureUps == {{}, {2}, {3, 5}, {2, 3, 4, 5}}

CountInputs ==
    {PostureHand(x5, x17, xtip, xpip, ups) :
        x5 \in PostureXs, x17 \in PostureXs, xtip \in PostureXs,
        xpip \in PostureXs, ups \in PostureUps}

\* The horizontal mirror image: every x replaced by 1 - x
Mirror(lm) ==
    [i \in Landmarks |-> [x |-> PosScale - lm[i].x, y |-> lm[i].y, z |-> lm[i].z]]

InitCount ==
    /\ InitDetector
    /\ InitApp
    /\ \E h \in CountInputs : call = [fn |-> "none", args |-> h, ret |-> <<>>]

\* one call of self._count_fingers(landmarks)
CountCall ==
    /\ call.fn = "none"
    /\ call' = [fn |-> "_count_fingers", args |-> call.args,
                ret |-> CountFingers(call.args)]
    /\ UNCHANGED <<detector_vars, app_vars>>

NextCount == CountCall

SpecCount == InitCount /\ [][NextCount]_vars

\* C17 (as claimed): the count is in 0..5 and equals the count of the mirror
\* image, for every hand, also one whose index and pinky MCP have equal x.
C17_MirrorInvariance_Claimed ==
    call.fn = "_count_fingers" =>
        /\ call.ret \in 0..5
        /\ call.ret = CountFingers(Mirror(call.args))

\* C17 (amended): the count is in 0..5; it equals the count of the mirror
\* image when the index MCP and the pinky MCP have different x; when they
\* have equal x, the two counts are equal only if the thumb tip and the
\* thumb joint have equal x, and otherwise differ by exactly one.
C17_MirrorInvariance ==
    call.fn = "_count_fingers" =>
        LET lm == call.args
            m == CountFingers(Mirror(lm))
        IN /\ call.ret \in 0..5
           /\ lm[5].x # lm[17].x => call.ret = m
           /\ (lm[5].x = lm[17].x /\ lm[4].x = lm[2].x) => call.ret = m
           /\ (lm[5].x = lm[17].x /\ lm[4].x # lm[2].x) => Abs(call.ret - m) = 1

\* a hand in the right-hand orientation with all five fingers counted
C17_Witness ==
    /\ call.fn = "_count_fingers"
    /\ call.args[5].x < call.args[17].x
    /\ call.args[4].x > call.args[2].x
    /\ call.ret = 5
    /\ CountFingers(Mirror(call.args)) = 5

----------------------------------------------------------------------------
(* Further properties of process() *)

\* C18: after every process() call scroll_mode is True if and only if
\* _scroll_ref_y is set, so a scroll delta is always taken against a
\* reference recorded on an earlier tick of the same scroll episode.
C18_ModeIffReference ==
    /\ scroll_mode <=> scroll_ref_y # None
    /\ IsType(gesture, {"scroll"}) => (obs.was_active /\ scroll_mode)

\* a scroll event with a delta other than 0, taken against the reference
\* of the tick before
C18_Witness ==
    /\ IsType(gesture, {"scroll"})
    /\ gesture[1].delta # Some(0)
    /\ scroll_mode /\ scroll_ref_y = Some(obs.idx)

\* C19: process() never returns a swipe on two ticks in a row, nor on the
\* first tick with a selected hand after a tick without one (no frame, no
\* hands, or a hand below the minimum area).
C19_NoBackToBackSwipes ==
    [][/\ IsType(gesture, SwipeTypes) => ~IsType(gesture', SwipeTypes)
       /\ obs.kind \in {"noframe", "nohands", "rejected"}
             => ~IsType(gesture', SwipeTypes)]_vars

\* C20: process() changes last_finger_time, to the time of the tick, on
\* exactly the ticks on which the fingers branch fires (outside scroll mode,
\* a selected hand with 1..4 fingers that does not enter scroll mode, more
\* than 0.5 s after the watermark), also when a swipe replaces the fingers
\* event returned; on every other tick it leaves it as it was.
C20_WatermarkEffect ==
    [][LET fires == /\ ~scroll_mode
                    /\ obs'.kind = "hand" /\ obs'.fingers \in 1..4
                    /\ ~scroll_mode'
                    /\ now' - last_finger_time > FINGER_DEBOUNCE
       IN /\ fires => (last_finger_time' = now' /\ last_finger_time' # last_finger_time)
          /\ ~fires => last_finger_time' = last_finger_time]_vars

\* a tick with 1..4 fingers that returns nothing because a fingers event
\* that a swipe replaced moved the watermark less than 0.5 s before
C20_Witness ==
    /\ HandTick /\ ~obs.was_active /\ ~scroll_mode
    /\ obs.fingers \in 1..4
    /\ gesture = None
    /\ now - last_finger_time < FINGER_DEBOUNCE
    /\ \A i \in 1..Len(emits) : emits[i] # last_finger_time

====
